---- MODULE Spec2Model ----
(***************************************************************************)
(* ledgerstats: src/main.rs.  The run of main() as a state machine:        *)
(* parse_database, the per-node print loop, build_graph,                   *)
(* calculate_average_depth, calculate_average_txs_per_depth and            *)
(* calculate_average_in_references, one step per loop iteration.           *)
(*                                                                         *)
(* A line of the input file is a sequence of tokens.  A token >= 0 is a    *)
(* decimal numeral that str::parse::<usize> accepts; a token < 0 stands    *)
(* for any token it rejects ("-1", "abc").  An f64 quotient a / b is kept  *)
(* as the pair <<a, b>>; <<0, 0>> is the NaN that 0.0 / 0.0 produces.      *)
(***************************************************************************)
EXTENDS Integers, Sequences, FiniteSets, TLC

\* ---------------------------------------------------------------- bounds
\* Longest record sequence with arbitrary parent ids (cycles, self
\* references, ids past the end of the input).
MaxRecords == 2
\* Longest record sequence of the acyclic inputs (every parent id smaller
\* than the record's own id).
MaxDagRecords == 3
\* Longest record sequence of the inputs whose timestamps vary.
MaxTimedRecords == 3
\* Largest timestamp of the inputs whose timestamps vary.
MaxTimestamp == 1

\* ------------------------------------------------------------ data model
TransactionNode(l, r, t) == [left |-> l, right |-> r, timestamp |-> t]

\* The text line that parse_database reads back as `node`.
LineOf(node) == <<node.left, node.right, node.timestamp>>

\* A quotient as f64 division leaves it.
Quot(a, b) == <<a, b>>
Zero == Quot(0, 1)
NotComputed == Quot(-1, 1)
IsNaN(q) == q[1] = 0 /\ q[2] = 0
QEq(p, q) == p[1] * q[2] = q[1] * p[2] /\ (p[2] = 0) = (q[2] = 0)

RECURSIVE SumSeq(_)
SumSeq(s) == IF s = <<>> THEN 0 ELSE Head(s) + SumSeq(Tail(s))

RECURSIVE SumOver(_, _)
SumOver(f, keys) ==
  IF keys = {} THEN 0
  ELSE LET k == CHOOSE x \in keys : TRUE IN f[k] + SumOver(f, keys \ {k})

EmptyMap == [k \in {} |-> 0]

VARIABLES
  lines,                \* the input file, header line first
  pc,                   \* position of main()
  error,                \* panic message once pc = "panicked"
  line_number,          \* parse_database: enumerate() index of the next line
  nodes,                \* parse_database: `nodes`, then main's `nodes`
  output,               \* lines written to stdout
  node_index,           \* enumerate() index of the loops over `nodes`
  graph,                \* build_graph: `graph`
  queue,                \* BFS frontier of the metric in progress
  visited,              \* calculate_average_depth: HashSet `visited`
  total_depth,
  num_nodes,
  depth_order,          \* ghost: (node, depth) pairs processed by calculate_average_depth
  depth_pops,           \* ghost: pop_front calls of calculate_average_depth
  visited_arr,          \* calculate_average_txs_per_depth: Vec<bool> `visited`
  depth_txs,
  total_txs,
  txs_order,            \* ghost: (node, depth) pairs processed by calculate_average_txs_per_depth
  txs_pops,             \* ghost: pop_front calls of calculate_average_txs_per_depth
  in_reference_counts,
  average_depth,
  average_txs_per_depth,
  average_in_references

vars == <<lines, pc, error, line_number, nodes, output, node_index, graph,
          queue, visited, total_depth, num_nodes, depth_order, depth_pops,
          visited_arr, depth_txs, total_txs, txs_order, txs_pops,
          in_reference_counts, average_depth, average_txs_per_depth,
          average_in_references>>

\* ---------------------------------------------------------------- inputs
\* Record sequences of length n whose parent ids range over 0..maxParent:
\* cycles, self references, equal parents, ids past the end of the input.
\* build_graph, calculate_average_depth and calculate_average_in_references
\* never read a timestamp, so these carry timestamp 0.
RECURSIVE ArbitraryRecords(_, _)
ArbitraryRecords(n, maxParent) ==
  IF n = 0 THEN {<<>>}
  ELSE {Append(s, TransactionNode(l, r, 0)) :
          s \in ArbitraryRecords(n - 1, maxParent),
          l \in 0..maxParent, r \in 0..maxParent}

\* Record sequences of length n in which every parent id is smaller than
\* the id of the record naming it (the inputs the program is meant for).
RECURSIVE DagRecords(_)
DagRecords(n) ==
  IF n = 0 THEN {<<>>}
  ELSE {Append(s, TransactionNode(l, r, 0)) :
          s \in DagRecords(n - 1), l \in 0..(n - 1), r \in 0..(n - 1)}

\* Acyclic record sequences of length n with every timestamp in
\* 0..MaxTimestamp; the right parent is absent or repeats the left one.
RECURSIVE TimedRecords(_)
TimedRecords(n) ==
  IF n = 0 THEN {<<>>}
  ELSE {Append(s, TransactionNode(p[1], p[2], t)) :
          s \in TimedRecords(n - 1),
          p \in {q \in (0..(n - 1)) \X (0..(n - 1)) : q[2] \in {0, q[1]}},
          t \in 0..MaxTimestamp}

\* Root, two children at depth 1, one child each at depth 2; every
\* timestamp equals the BFS depth.
HandDag ==
  << TransactionNode(0, 0, 0), TransactionNode(1, 0, 1),
     TransactionNode(1, 0, 1), TransactionNode(2, 0, 2),
     TransactionNode(3, 0, 2) >>

\* A diamond (4 has the parents 2 and 3), a node naming one parent twice
\* and an orphan record at the end.
DiamondWithOrphan ==
  << TransactionNode(0, 0, 0), TransactionNode(1, 0, 1),
     TransactionNode(1, 0, 1), TransactionNode(2, 3, 2),
     TransactionNode(4, 4, 3), TransactionNode(0, 0, 0) >>

\* The cycle 1 -> 2 -> 3 -> 1, a record that is its own parent and a
\* parent id past the end of the input.
CycleThroughRoot ==
  << TransactionNode(3, 0, 0), TransactionNode(1, 0, 1),
     TransactionNode(2, 4, 1), TransactionNode(4, 9, 2) >>

RecordInputs ==
  UNION {ArbitraryRecords(n, n + 1) : n \in 0..MaxRecords}
    \cup UNION {DagRecords(n) : n \in 1..MaxDagRecords}
    \cup UNION {TimedRecords(n) : n \in 1..MaxTimedRecords}
    \cup {HandDag, DiamondWithOrphan, CycleThroughRoot}

\* The file holding `recs`: the header (the node count) and one line each.
FileOf(recs) == <<<<Len(recs)>>>> \o [i \in 1..Len(recs) |-> LineOf(recs[i])]

\* Lines parse_database rejects: blank, two tokens, four tokens, a token
\* that is no unsigned integer, a lone such token.
BadLines == { <<>>, <<1, 0>>, <<0, 0, 0, 0>>, <<0, -1, 0>>, <<-1>> }

\* `f` with `line` inserted so that it becomes data line k.
InsertLine(f, k, line) == SubSeq(f, 1, k) \o <<line>> \o SubSeq(f, k + 1, Len(f))

MalformedFiles ==
  UNION { { InsertLine(FileOf(recs), k, bad) : k \in 1..(Len(recs) + 1), bad \in BadLines } :
          recs \in UNION {DagRecords(n) : n \in 0..2} }

\* Files parse_database accepts: well-formed ones, the file with no line at
\* all, and files whose header is not a number (the header is never parsed).
WellFormedFiles ==
  {FileOf(recs) : recs \in RecordInputs}
    \cup { <<>>, << <<-1, -1>> >>, << <<>>, <<0, 0, 0>> >> }

InputFiles == WellFormedFiles \cup MalformedFiles

Init ==
  /\ lines \in InputFiles
  /\ pc = "parse"
  /\ error = "none"
  /\ line_number = 0
  /\ nodes = <<>>
  /\ output = <<>>
  /\ node_index = 0
  /\ graph = EmptyMap
  /\ queue = <<>>
  /\ visited = {}
  /\ total_depth = 0
  /\ num_nodes = 0
  /\ depth_order = <<>>
  /\ depth_pops = 0
  /\ visited_arr = <<>>
  /\ depth_txs = EmptyMap
  /\ total_txs = 0
  /\ txs_order = <<>>
  /\ txs_pops = 0
  /\ in_reference_counts = <<>>
  /\ average_depth = NotComputed
  /\ average_txs_per_depth = NotComputed
  /\ average_in_references = NotComputed

\* ------------------------------------------------------- parse_database
\* Line 26: every token is parsed before the length is looked at.
TokensParse(line) == \A i \in 1..Len(line) : line[i] >= 0

\* Mutant of LineError: only the token count is checked.
LineErrorLengthOnly(line) ==
  IF Len(line) # 3 THEN "Invalid input format" ELSE "none"

\* Lines 24-31: the panic message of a rejected line, "none" if accepted.
LineError(line) ==
  IF ~TokensParse(line) THEN "Failed to parse number"
  ELSE IF Len(line) # 3 THEN "Invalid input format"
  ELSE "none"

\* Lines 33-41.
NodeOfLine(line) == TransactionNode(line[1], line[2], line[3])

Panic(msg) ==
  /\ pc' = "panicked"
  /\ error' = msg

\* Lines 19-21: the first line is skipped unread.
SkipHeader ==
  /\ pc = "parse"
  /\ line_number = 0
  /\ Len(lines) > 0
  /\ line_number' = 1
  /\ UNCHANGED <<lines, pc, error, nodes, output, node_index, graph, queue,
                 visited, total_depth, num_nodes, depth_order, depth_pops,
                 visited_arr, depth_txs, total_txs, txs_order, txs_pops,
                 in_reference_counts, average_depth, average_txs_per_depth,
                 average_in_references>>

\* Lines 23-43, a line that parses.
ParseRecord ==
  /\ pc = "parse"
  /\ 0 < line_number /\ line_number < Len(lines)
  /\ LineError(lines[line_number + 1]) = "none"
  /\ nodes' = Append(nodes, NodeOfLine(lines[line_number + 1]))
  /\ line_number' = line_number + 1
  /\ UNCHANGED <<lines, pc, error, output, node_index, graph, queue,
                 visited, total_depth, num_nodes, depth_order, depth_pops,
                 visited_arr, depth_txs, total_txs, txs_order, txs_pops,
                 in_reference_counts, average_depth, average_txs_per_depth,
                 average_in_references>>

\* Lines 23-31, a line that does not: the process panics.
ParseFail ==
  /\ pc = "parse"
  /\ 0 < line_number /\ line_number < Len(lines)
  /\ LineError(lines[line_number + 1]) # "none"
  /\ Panic(LineError(lines[line_number + 1]))
  /\ UNCHANGED <<lines, line_number, nodes, output, node_index, graph, queue,
                 visited, total_depth, num_nodes, depth_order, depth_pops,
                 visited_arr, depth_txs, total_txs, txs_order, txs_pops,
                 in_reference_counts, average_depth, average_txs_per_depth,
                 average_in_references>>

\* Lines 46 and 181-182: the reader is exhausted, main starts printing.
ParseEnd ==
  /\ pc = "parse"
  /\ line_number = Len(lines)
  /\ pc' = "print"
  /\ node_index' = 0
  /\ UNCHANGED <<lines, error, line_number, nodes, output, graph, queue,
                 visited, total_depth, num_nodes, depth_order, depth_pops,
                 visited_arr, depth_txs, total_txs, txs_order, txs_pops,
                 in_reference_counts, average_depth, average_txs_per_depth,
                 average_in_references>>

\* ------------------------------------------------------ main, lines 182-190
NodeLine(id, node) ==
  [kind |-> "Node", id |-> id, left |-> node.left, right |-> node.right,
   timestamp |-> node.timestamp]

SummaryLine(label) == [kind |-> label]

PrintNode ==
  /\ pc = "print"
  /\ node_index < Len(nodes)
  /\ output' = Append(output, NodeLine(node_index + 1, nodes[node_index + 1]))
  /\ node_index' = node_index + 1
  /\ UNCHANGED <<lines, pc, error, line_number, nodes, graph, queue,
                 visited, total_depth, num_nodes, depth_order, depth_pops,
                 visited_arr, depth_txs, total_txs, txs_order, txs_pops,
                 in_reference_counts, average_depth, average_txs_per_depth,
                 average_in_references>>

\* Lines 190-192 and 50: the print loop ends, build_graph starts.
PrintEnd ==
  /\ pc = "print"
  /\ node_index = Len(nodes)
  /\ pc' = "build"
  /\ node_index' = 0
  /\ graph' = EmptyMap
  /\ UNCHANGED <<lines, error, line_number, nodes, output, queue,
                 visited, total_depth, num_nodes, depth_order, depth_pops,
                 visited_arr, depth_txs, total_txs, txs_order, txs_pops,
                 in_reference_counts, average_depth, average_txs_per_depth,
                 average_in_references>>

\* ----------------------------------------------------------- build_graph
\* graph.entry(parent).or_insert(Vec::new()).push(child)
PushChild(g, parent, child) ==
  [k \in DOMAIN g \cup {parent} |->
     IF k = parent
       THEN (IF k \in DOMAIN g THEN Append(g[k], child) ELSE <<child>>)
       ELSE g[k]]

\* Lines 57-62.
AddLeft(g, node, current_node) ==
  IF node.left > 0 THEN PushChild(g, node.left, current_node) ELSE g

\* Mutant of AddRight: a right parent equal to the left one is skipped.
AddRightIfDistinct(g, node, current_node) ==
  IF node.right > 0 /\ node.right # node.left
    THEN PushChild(g, node.right, current_node) ELSE g

\* Lines 64-69.
AddRight(g, node, current_node) ==
  IF node.right > 0 THEN PushChild(g, node.right, current_node) ELSE g

\* Lines 53-69: one iteration of the loop, left edge before right edge.
AddRecord(g, node, current_node) ==
  AddRight(AddLeft(g, node, current_node), node, current_node)

BuildStep ==
  /\ pc = "build"
  /\ node_index < Len(nodes)
  /\ graph' = AddRecord(graph, nodes[node_index + 1], node_index + 1)
  /\ node_index' = node_index + 1
  /\ UNCHANGED <<lines, pc, error, line_number, nodes, output, queue,
                 visited, total_depth, num_nodes, depth_order, depth_pops,
                 visited_arr, depth_txs, total_txs, txs_order, txs_pops,
                 in_reference_counts, average_depth, average_txs_per_depth,
                 average_in_references>>

\* The frontier both traversals start from: (root_node, 0).
RootFrontier == << <<1, 0>> >>

\* Lines 72 and 76-83: build_graph returns, calculate_average_depth starts.
BuildEnd ==
  /\ pc = "build"
  /\ node_index = Len(nodes)
  /\ pc' = "depth"
  /\ total_depth' = 0
  /\ num_nodes' = 0
  /\ visited' = {}
  /\ queue' = RootFrontier
  /\ UNCHANGED <<lines, error, line_number, nodes, output, node_index, graph,
                 depth_order, depth_pops,
                 visited_arr, depth_txs, total_txs, txs_order, txs_pops,
                 in_reference_counts, average_depth, average_txs_per_depth,
                 average_in_references>>

\* ----------------------------------------------- calculate_average_depth
\* graph.get(&node), an absent key giving no neighbours.
Neighbors(g, node) == IF node \in DOMAIN g THEN g[node] ELSE <<>>

\* Mutant of DepthUnvisited: a dequeued node is processed without looking
\* at the visited set (only the enqueue-time test is left).
DepthAlwaysProcess(v, node) == TRUE

\* Line 86: the test that decides whether a dequeued node is processed.
DepthUnvisited(v, node) == node \notin v

\* Mutant of DepthPushes: the children inherit the parent's depth.
DepthPushesSameDepth(nbrs, v, depth) ==
  LET fresh == SelectSeq(nbrs, LAMBDA nb : nb \notin v)
  IN  [i \in 1..Len(fresh) |-> <<fresh[i], depth>>]

\* Lines 92-96: the pairs pushed for the neighbours not yet visited.
DepthPushes(nbrs, v, depth) ==
  LET fresh == SelectSeq(nbrs, LAMBDA nb : nb \notin v)
  IN  [i \in 1..Len(fresh) |-> <<fresh[i], depth + 1>>]

\* Lines 85-99: one iteration of the while loop.
DepthStep ==
  /\ pc = "depth"
  /\ queue # <<>>
  /\ LET node == Head(queue)[1]
         depth == Head(queue)[2]
     IN  IF DepthUnvisited(visited, node)
           THEN /\ total_depth' = total_depth + depth
                /\ num_nodes' = num_nodes + 1
                /\ visited' = visited \cup {node}
                /\ queue' = Tail(queue) \o
                     DepthPushes(Neighbors(graph, node), visited \cup {node}, depth)
                /\ depth_order' = Append(depth_order, <<node, depth>>)
           ELSE /\ queue' = Tail(queue)
                /\ UNCHANGED <<total_depth, num_nodes, visited, depth_order>>
  /\ depth_pops' = depth_pops + 1
  /\ UNCHANGED <<lines, pc, error, line_number, nodes, output, node_index,
                 graph, visited_arr, depth_txs, total_txs, txs_order, txs_pops,
                 in_reference_counts, average_depth, average_txs_per_depth,
                 average_in_references>>

\* Lines 101-105.
AverageDepth(total, num) == IF num > 0 THEN Quot(total, num) ELSE Zero

\* Mutant of VisitedLen: no slot for the 1-based ids.
VisitedLenNoSlack(n) == n

\* Line 117: the length of the visited vector.
VisitedLen(n) == n + 1

\* Lines 101-105, 195 and 113-119: the average is returned and printed,
\* calculate_average_txs_per_depth starts.
DepthEnd ==
  /\ pc = "depth"
  /\ queue = <<>>
  /\ average_depth' = AverageDepth(total_depth, num_nodes)
  /\ output' = Append(output, SummaryLine("AVG DAG DEPTH"))
  /\ pc' = "txs"
  /\ depth_txs' = EmptyMap
  /\ total_txs' = 0
  /\ visited_arr' = [i \in 0..(VisitedLen(Len(nodes)) - 1) |-> FALSE]
  /\ queue' = RootFrontier
  /\ UNCHANGED <<lines, error, line_number, nodes, node_index, graph,
                 visited, total_depth, num_nodes, depth_order, depth_pops,
                 txs_order, txs_pops, in_reference_counts,
                 average_txs_per_depth, average_in_references>>

\* --------------------------------------- calculate_average_txs_per_depth
\* Lines 149-151.
count_transactions_at_depth(ns, depth) ==
  Cardinality({i \in 1..Len(ns) : ns[i].timestamp = depth})

\* Mutant of AddTxs: the count is stored once per depth instead of being
\* added for every processed node.
AddTxsOncePerDepth(m, depth, tx_count) ==
  [k \in DOMAIN m \cup {depth} |-> IF k = depth THEN tx_count ELSE m[k]]

\* Line 126: *depth_txs.entry(depth).or_insert(0) += tx_count
AddTxs(m, depth, tx_count) ==
  [k \in DOMAIN m \cup {depth} |->
     IF k = depth
       THEN (IF k \in DOMAIN m THEN m[k] ELSE 0) + tx_count
       ELSE m[k]]

\* Lines 122 and 131: an index into `visited` past its end.
TxsOutOfRange ==
  LET node == Head(queue)[1]
  IN  IF node \notin DOMAIN visited_arr THEN TRUE
      ELSE IF visited_arr[node] THEN FALSE
      ELSE \E i \in 1..Len(Neighbors(graph, node)) :
             Neighbors(graph, node)[i] \notin DOMAIN visited_arr

\* Mutant of TxsPushes: the child list is walked back to front.
TxsPushesReversed(nbrs, v, depth) ==
  LET fresh == SelectSeq(nbrs, LAMBDA nb : ~v[nb])
  IN  [i \in 1..Len(fresh) |-> <<fresh[Len(fresh) + 1 - i], depth + 1>>]

\* Lines 130-134: the pairs pushed for the neighbours not yet visited.
TxsPushes(nbrs, v, depth) ==
  LET fresh == SelectSeq(nbrs, LAMBDA nb : ~v[nb])
  IN  [i \in 1..Len(fresh) |-> <<fresh[i], depth + 1>>]

\* Lines 121-137: one iteration of the while loop.
TxsStep ==
  /\ pc = "txs"
  /\ queue # <<>>
  /\ ~TxsOutOfRange
  /\ LET node == Head(queue)[1]
         depth == Head(queue)[2]
         tx_count == count_transactions_at_depth(nodes, depth)
         marked == [visited_arr EXCEPT ![node] = TRUE]
     IN  IF ~visited_arr[node]
           THEN /\ visited_arr' = marked
                /\ depth_txs' = AddTxs(depth_txs, depth, tx_count)
                /\ total_txs' = total_txs + tx_count
                /\ queue' = Tail(queue) \o
                     TxsPushes(Neighbors(graph, node), marked, depth)
                /\ txs_order' = Append(txs_order, <<node, depth>>)
           ELSE /\ queue' = Tail(queue)
                /\ UNCHANGED <<visited_arr, depth_txs, total_txs, txs_order>>
  /\ txs_pops' = txs_pops + 1
  /\ UNCHANGED <<lines, pc, error, line_number, nodes, output, node_index,
                 graph, visited, total_depth, num_nodes, depth_order,
                 depth_pops, in_reference_counts, average_depth,
                 average_txs_per_depth, average_in_references>>

\* Lines 122 and 131: the index is out of bounds and the process panics.
TxsIndexPanic ==
  /\ pc = "txs"
  /\ queue # <<>>
  /\ TxsOutOfRange
  /\ Panic("index out of bounds")
  /\ UNCHANGED <<lines, line_number, nodes, output, node_index, graph, queue,
                 visited, total_depth, num_nodes, depth_order, depth_pops,
                 visited_arr, depth_txs, total_txs, txs_order, txs_pops,
                 in_reference_counts, average_depth, average_txs_per_depth,
                 average_in_references>>

\* Line 142: the keys whose value depth_txs.values() may yield first.  The
\* iteration order of a HashMap is unspecified and differs from run to run.
FirstIterated(m) == DOMAIN m

\* Lines 140-146, `first` being the key values().skip(1) drops.  The map
\* holds the root's depth whenever the loop has ended, so len() - 1 does
\* not wrap.
AverageTxs(m, first) ==
  LET num_non_zero_depths == Cardinality(DOMAIN m) - 1
  IN  IF num_non_zero_depths > 0
        THEN Quot(SumOver(m, DOMAIN m \ {first}), num_non_zero_depths)
        ELSE Zero

\* Lines 140-146, 197-200 and 158: the average is returned and printed,
\* calculate_average_in_references starts.
TxsEnd ==
  /\ pc = "txs"
  /\ queue = <<>>
  /\ \E first \in FirstIterated(depth_txs) :
       average_txs_per_depth' = AverageTxs(depth_txs, first)
  /\ output' = Append(output, SummaryLine("AVG TXS PER DEPTH (excluding depth 0)"))
  /\ pc' = "refs"
  /\ node_index' = 0
  /\ in_reference_counts' = [i \in 0..(Len(nodes) - 1) |-> 0]
  /\ UNCHANGED <<lines, error, line_number, nodes, graph, queue,
                 visited, total_depth, num_nodes, depth_order, depth_pops,
                 visited_arr, depth_txs, total_txs, txs_order, txs_pops,
                 average_depth, average_in_references>>

\* --------------------------------------- calculate_average_in_references
\* Occurrences of x in the sequence s.
Occurrences(s, x) == Cardinality({i \in 1..Len(s) : s[i] = x})

\* Lines 161-165: in_reference_counts[referencing_node - 1] += 1 for each
\* entry of referenced_by.
CountReferences(counts, referenced_by) ==
  [i \in DOMAIN counts |-> counts[i] + Occurrences(referenced_by, i + 1)]

\* Mutant of ReferencedBy: the 0-based index is used as the key.
ReferencedByIndex(g, index) == Neighbors(g, index)

\* Line 161: the key looked up for the node at `index`.
ReferencedBy(g, index) == Neighbors(g, index + 1)

\* Lines 160-166: one iteration of the outer loop; an index past the end of
\* in_reference_counts panics.
RefsStep ==
  /\ pc = "refs"
  /\ node_index < Len(nodes)
  /\ LET referenced_by == ReferencedBy(graph, node_index)
     IN  IF \E i \in 1..Len(referenced_by) :
               (referenced_by[i] - 1) \notin DOMAIN in_reference_counts
           THEN /\ Panic("index out of bounds")
                /\ UNCHANGED <<in_reference_counts, node_index>>
           ELSE /\ in_reference_counts' =
                     CountReferences(in_reference_counts, referenced_by)
                /\ node_index' = node_index + 1
                /\ UNCHANGED <<pc, error>>
  /\ UNCHANGED <<lines, line_number, nodes, output, graph, queue,
                 visited, total_depth, num_nodes, depth_order, depth_pops,
                 visited_arr, depth_txs, total_txs, txs_order, txs_pops,
                 average_depth, average_txs_per_depth, average_in_references>>

\* Lines 168-169.
AverageInReferences(counts, n) ==
  Quot(SumOver(counts, DOMAIN counts), n)

\* Lines 168-169 and 202: the average is returned and printed, main returns.
RefsEnd ==
  /\ pc = "refs"
  /\ node_index = Len(nodes)
  /\ average_in_references' = AverageInReferences(in_reference_counts, Len(nodes))
  /\ output' = Append(output, SummaryLine("AVG REF"))
  /\ pc' = "done"
  /\ UNCHANGED <<lines, error, line_number, nodes, node_index, graph, queue,
                 visited, total_depth, num_nodes, depth_order, depth_pops,
                 visited_arr, depth_txs, total_txs, txs_order, txs_pops,
                 in_reference_counts, average_depth, average_txs_per_depth>>

\* ------------------------------------------------------------------ main
Next ==
  \/ SkipHeader
  \/ ParseRecord
  \/ ParseFail
  \/ ParseEnd
  \/ PrintNode
  \/ PrintEnd
  \/ BuildStep
  \/ BuildEnd
  \/ DepthStep
  \/ DepthEnd
  \/ TxsStep
  \/ TxsIndexPanic
  \/ TxsEnd
  \/ RefsStep
  \/ RefsEnd

Spec == Init /\ [][Next]_vars

\* Record sequences of length n with left parents in 0..maxParent (cycles,
\* self references, ids past the end), the right parent absent or equal
\* to the left one.
RECURSIVE CyclicRecords(_, _)
CyclicRecords(n, maxParent) ==
  IF n = 0 THEN {<<>>}
  ELSE {Append(s, TransactionNode(p[1], p[2], 0)) :
          s \in CyclicRecords(n - 1, maxParent),
          p \in {q \in (0..maxParent) \X (0..maxParent) : q[2] \in {0, q[1]}}}

\* The inputs of the termination check: those record sequences, the two
\* larger graphs, and the malformed files.
TraversalFiles ==
  {FileOf(recs) : recs \in UNION {CyclicRecords(n, n + 1) : n \in 0..MaxRecords}
                             \cup {DiamondWithOrphan, CycleThroughRoot}}
    \cup MalformedFiles

\* The program is one sequential thread: a step that can be taken is taken.
TraversalInit == Init /\ lines \in TraversalFiles

FairSpec == TraversalInit /\ [][Next]_vars /\ WF_vars(Next)

\* ======================================================================
\* What the metrics are meant to compute, stated over the record sequence
\* alone (no queue, no visited set).
\* ======================================================================
\* The nonzero parent ids record i names.
ParentsOf(ns, i) == {ns[i].left, ns[i].right} \ {0}

\* The sets of ids at edge distance 0, 1, 2, ... from id 1.
RECURSIVE LevelsFrom(_, _, _)
LevelsFrom(ns, seen, frontier) ==
  IF frontier = {} THEN <<>>
  ELSE LET next == {i \in 1..Len(ns) :
                      i \notin seen /\ ParentsOf(ns, i) \cap frontier # {}}
       IN  <<frontier>> \o LevelsFrom(ns, seen \cup next, next)

Levels(ns) == LevelsFrom(ns, {1}, {1})

\* Number of ids at distance d from id 1.
LevelSize(ns, d) ==
  IF d + 1 \in DOMAIN Levels(ns) THEN Cardinality(Levels(ns)[d + 1]) ELSE 0

ReachableCount(ns) ==
  SumSeq([k \in DOMAIN Levels(ns) |-> Cardinality(Levels(ns)[k])])

DistanceSum(ns) ==
  SumSeq([k \in DOMAIN Levels(ns) |-> (k - 1) * Cardinality(Levels(ns)[k])])

\* The parent slots of the input in scan order: record 1 left, record 1
\* right, record 2 left, ...; slot k belongs to record (k + 1) \div 2.
SlotParent(ns, k) ==
  IF k % 2 = 1 THEN ns[(k + 1) \div 2].left ELSE ns[(k + 1) \div 2].right

\* The ids appended under parent p, in scan order.
ChildrenOf(ns, p) ==
  LET slots == SelectSeq([k \in 1..(2 * Len(ns)) |-> k],
                         LAMBDA k : SlotParent(ns, k) = p)
  IN  [j \in 1..Len(slots) |-> (slots[j] + 1) \div 2]

ParentKeys(ns) == {SlotParent(ns, k) : k \in 1..(2 * Len(ns))} \ {0}

\* Number of parent slots naming an id in 1..n.
EdgesWithin(ns) ==
  Cardinality({k \in 1..(2 * Len(ns)) : SlotParent(ns, k) \in 1..Len(ns)})

EdgesTotal(ns) ==
  Cardinality({k \in 1..(2 * Len(ns)) : SlotParent(ns, k) > 0})

\* 1 <- 2 <- ... <- n through left parents only.
IsChain(ns) ==
  /\ Len(ns) >= 1
  /\ ns[1].left = 0 /\ ns[1].right = 0
  /\ \A i \in 2..Len(ns) : ns[i].left = i - 1 /\ ns[i].right = 0

\* A data line that is not exactly three unsigned integers.
HasMalformedLine(f) ==
  \E k \in 2..Len(f) : ~(Len(f[k]) = 3 /\ \A j \in 1..Len(f[k]) : f[k][j] >= 0)

\* Position of main(): build_graph, calculate_average_depth,
\* calculate_average_txs_per_depth has just returned.  No later step
\* assigns what it returned.
GraphBuilt == pc = "depth" /\ depth_pops = 0
DepthDone == pc = "txs" /\ txs_pops = 0
TxsDone == pc = "refs" /\ node_index = 0
NoDuplicates(order) ==
  \A i, j \in 1..Len(order) : order[i][1] = order[j][1] => i = j

\* ======================================================================
\* Claims
\* ======================================================================

\* C1: for an empty record sequence (header only, zero records) the run
\* does not abort, and ends with average depth 0.0, average transactions
\* per depth 0.0 and an average in-references that is not NaN.
C1_EmptyInputCompletes ==
  Len(lines) = 1 =>
    /\ pc # "panicked"
    /\ pc = "done" => /\ QEq(average_depth, Zero)
                      /\ QEq(average_txs_per_depth, Zero)
                      /\ ~IsNaN(average_in_references)

\* C2: whenever the traversal discovers at least two distinct depths, the
\* result of calculate_average_txs_per_depth is the sum of the totals of
\* every depth key except 0, divided by (number of depth keys - 1).
C2_ExcludesDepthZero ==
  (TxsDone /\ Cardinality(DOMAIN depth_txs) >= 2) =>
    average_txs_per_depth =
      Quot(SumOver(depth_txs, DOMAIN depth_txs \ {0}),
           Cardinality(DOMAIN depth_txs) - 1)

\* C3: when the BFS loop of calculate_average_txs_per_depth has finished,
\* the accumulator has one key per BFS depth and depth_txs[d] = (number of
\* nodes processed at depth d) x (number of records whose timestamp is d);
\* for the hand-computed DAG this is {0: 1, 1: 4, 2: 4}.
C3_DepthTxsPerProcessedNode ==
  TxsDone =>
    /\ DOMAIN depth_txs = {d \in 0..Len(nodes) : LevelSize(nodes, d) > 0}
    /\ \A d \in DOMAIN depth_txs :
         /\ depth_txs[d] =
              Cardinality({k \in 1..Len(txs_order) : txs_order[k][2] = d})
                * count_transactions_at_depth(nodes, d)
         /\ depth_txs[d] =
              LevelSize(nodes, d) * Cardinality({i \in 1..Len(nodes) : nodes[i].timestamp = d})
    /\ nodes = HandDag => depth_txs = (0 :> 1) @@ (1 :> 4) @@ (2 :> 4)

C3_HandDagDone ==
  /\ TxsDone
  /\ nodes = HandDag
  /\ depth_txs[1] = 4

\* C4: when calculate_average_depth has finished, num_nodes is the number
\* of ids reachable from id 1 (each once), total_depth the sum of their
\* shortest edge distances from id 1; unreachable records add nothing, so
\* the average of an input ending in an orphan record is that of the input
\* without it.
C4_AverageDepthOverReachable ==
  DepthDone =>
    /\ num_nodes = ReachableCount(nodes)
    /\ total_depth = DistanceSum(nodes)
    /\ average_depth = Quot(DistanceSum(nodes), ReachableCount(nodes))
    /\ (/\ Len(nodes) >= 2
        /\ nodes[Len(nodes)].left = 0
        /\ nodes[Len(nodes)].right = 0)
         => LET without == SubSeq(nodes, 1, Len(nodes) - 1)
            IN  average_depth = Quot(DistanceSum(without), ReachableCount(without))

\* The traversal has finished on an input with a node dequeued twice, a
\* node at depth 2 and an orphan record at the end.
C4_TwoParentsAndOrphan ==
  /\ DepthDone
  /\ depth_pops > num_nodes
  /\ num_nodes >= 3
  /\ num_nodes < Len(nodes)
  /\ total_depth > num_nodes - 1
  /\ nodes[Len(nodes)].left = 0 /\ nodes[Len(nodes)].right = 0

\* C5: for n >= 1 records the total of calculate_average_in_references is
\* the number of parent slots naming an id in 1..n, the result that number
\* over n; slots naming an id above n are not counted, a record naming the
\* same parent twice counts twice, and a chain totals n - 1.
C5_InReferencesCountEdgesWithin ==
  (pc = "done" /\ Len(nodes) >= 1) =>
    /\ SumOver(in_reference_counts, DOMAIN in_reference_counts) = EdgesWithin(nodes)
    /\ average_in_references = Quot(EdgesWithin(nodes), Len(nodes))
    /\ \A c \in 1..Len(nodes) :
         in_reference_counts[c - 1] =
           Cardinality({k \in {2 * c - 1, 2 * c} : SlotParent(nodes, k) \in 1..Len(nodes)})
    /\ IsChain(nodes) => average_in_references = Quot(Len(nodes) - 1, Len(nodes))

\* A finished run whose input has a parent id past the end, so that not
\* every edge is counted, and a record naming one parent twice.
C5_DanglingAndDouble ==
  /\ pc = "done"
  /\ EdgesWithin(nodes) < EdgesTotal(nodes)
  /\ \E i \in 1..Len(nodes) : nodes[i].left = nodes[i].right /\ nodes[i].left \in 1..Len(nodes)
  /\ in_reference_counts[Len(nodes) - 1] = 2

\* C6: build_graph is total and its result is determined by the input: the
\* keys are the nonzero parent ids named, the child list of p is the ids
\* appended for the slots equal to p in scan order (record by record, left
\* slot before right slot), and an id is listed twice under p when both
\* its parents are p.  Holds after every iteration for the prefix scanned.
C6_GraphIsSlotScan ==
  LET scanned == IF pc = "build" THEN SubSeq(nodes, 1, node_index)
                 ELSE nodes
  IN  (pc = "build" \/ GraphBuilt) =>
        /\ DOMAIN graph = ParentKeys(scanned)
        /\ 0 \notin DOMAIN graph
        /\ \A p \in DOMAIN graph : graph[p] = ChildrenOf(scanned, p)

\* build_graph has returned a mapping with a child listed twice and a key
\* that is no record id.
C6_BuiltWithDoubleChild ==
  /\ GraphBuilt
  /\ \E p \in DOMAIN graph : Len(graph[p]) = 2 /\ graph[p][1] = graph[p][2]
  /\ \E p \in DOMAIN graph : p > Len(nodes)

\* C7: if a data line is not exactly three unsigned integers the run ends
\* in the format-error panic and nothing is ever written to stdout,
\* wherever the malformed line stands.
C7_MalformedLineNoOutput ==
  HasMalformedLine(lines) =>
    /\ output = <<>>
    /\ pc \in {"parse", "panicked"}
    /\ pc = "panicked" => error \in {"Failed to parse number", "Invalid input format"}
    /\ pc = "parse" => ENABLED Next

\* The run has aborted on a malformed line that two valid lines precede.
C7_AbortedAfterValidLines ==
  /\ pc = "panicked"
  /\ error \in {"Failed to parse number", "Invalid input format"}
  /\ Len(nodes) = 2

\* A dequeue of an already visited node by calculate_average_depth.
DepthSecondDequeue ==
  pc = "depth" /\ queue # <<>> /\ Head(queue)[1] \in visited

\* A dequeue of an already visited node by calculate_average_txs_per_depth.
TxsSecondDequeue ==
  /\ pc = "txs" /\ queue # <<>>
  /\ Head(queue)[1] \in DOMAIN visited_arr
  /\ visited_arr[Head(queue)[1]]

\* C8 (safety half): in both traversals no id is processed twice, a dequeue
\* of an already visited id changes no accumulator and enqueues nothing,
\* and neither loop runs more than 1 + (number of edges) iterations.
C8_NoReprocessing ==
  /\ NoDuplicates(depth_order)
  /\ NoDuplicates(txs_order)
  /\ num_nodes = Len(depth_order)
  /\ depth_pops <= 1 + EdgesTotal(nodes)
  /\ txs_pops <= 1 + EdgesTotal(nodes)

C8_SecondDequeueIsNoOp ==
  /\ DepthSecondDequeue =>
       /\ queue' = Tail(queue)
       /\ UNCHANGED <<total_depth, num_nodes, visited, depth_order>>
  /\ TxsSecondDequeue =>
       /\ queue' = Tail(queue)
       /\ UNCHANGED <<visited_arr, depth_txs, total_txs, txs_order>>

\* C8: for every input of n >= 1 records, cyclic ones included, the BFS
\* loops of calculate_average_depth and calculate_average_txs_per_depth
\* terminate and no id is processed more than once.
C8_TraversalsTerminate ==
  /\ []C8_NoReprocessing
  /\ [][C8_SecondDequeueIsNoOp]_vars
  /\ (pc = "depth") ~> (pc = "txs")
  /\ (pc = "txs" /\ Len(nodes) >= 1) ~> (pc = "refs")

\* Some record names itself or a later record as a parent.
IsCyclic(ns) ==
  \E i \in 1..Len(ns) : \E p \in ParentsOf(ns, i) : i <= p /\ p <= Len(ns)

\* Both traversals have finished on a cyclic input in which the cycle is
\* reachable and an already visited id was dequeued again.
C8_CyclicInputFinished ==
  /\ pc = "done"
  /\ IsCyclic(nodes)
  /\ num_nodes >= 2
  /\ \E k \in 1..Len(depth_order) :
       \E p \in ParentsOf(nodes, depth_order[k][1]) :
         depth_order[k][1] <= p /\ p \in visited
  /\ depth_pops > num_nodes
  /\ txs_pops > Len(txs_order)

\* C9: for n >= 1 the traversal of calculate_average_txs_per_depth
\* processes the same ids at the same depths in the same order as that of
\* calculate_average_depth; after each of its steps the visited vector
\* marks exactly the ids the first traversal had processed by then, and
\* both loops make the same number of iterations.
C9_SameTraversal ==
  (Len(nodes) >= 1 /\ pc \in {"txs", "refs", "done"}) =>
    /\ Len(txs_order) <= Len(depth_order)
    /\ txs_order = SubSeq(depth_order, 1, Len(txs_order))
    /\ {i \in DOMAIN visited_arr : visited_arr[i]} =
         {depth_order[k][1] : k \in 1..Len(txs_order)}
    /\ pc \in {"refs", "done"} => /\ txs_order = depth_order
                  /\ txs_pops = depth_pops
                  /\ {i \in DOMAIN visited_arr : visited_arr[i]} = visited

\* The second traversal has finished after processing three ids, one of
\* them dequeued twice.
C9_BothTraversalsDone ==
  /\ pc = "done"
  /\ Len(txs_order) >= 3
  /\ txs_pops > Len(txs_order)

\* C10: for n >= 1 records with arbitrary parent ids, no index is out of
\* bounds: every id in the frontier of calculate_average_txs_per_depth and
\* every child id in the adjacency mapping lies in 1..n, so `visited`
\* (length n + 1) and in_reference_counts (length n, index c - 1) are
\* never indexed past their end, and the run does not panic on an index.
C10_IndicesInBounds ==
  (Len(nodes) >= 1 /\ line_number = Len(lines)) =>
    /\ error # "index out of bounds"
    /\ \A p \in DOMAIN graph : \A j \in 1..Len(graph[p]) :
         1 <= graph[p][j] /\ graph[p][j] <= Len(nodes)
    /\ pc = "txs" =>
         /\ DOMAIN visited_arr = 0..Len(nodes)
         /\ \A k \in 1..Len(queue) : queue[k][1] \in 1..Len(nodes)
         /\ \A k \in 1..Len(queue) : queue[k][1] \in DOMAIN visited_arr
    /\ pc = "refs" =>
         /\ DOMAIN in_reference_counts = 0..(Len(nodes) - 1)
         /\ \A p \in DOMAIN graph : \A j \in 1..Len(graph[p]) :
              (graph[p][j] - 1) \in DOMAIN in_reference_counts

\* A run has finished on an input naming a parent id past the end of the
\* input, whose last record is reachable from id 1.
C10_DanglingParentFinished ==
  /\ pc = "done"
  /\ \E i \in 1..Len(nodes) : nodes[i].left > Len(nodes) \/ nodes[i].right > Len(nodes)
  /\ Len(nodes) >= 2
  /\ visited_arr[Len(nodes)]

====
